---------------------------- MODULE Spec2Model ----------------------------
(***************************************************************************)
(* Daly BMS Modbus RTU poller (new_main.py, main.py, address.py).          *)
(*                                                                         *)
(* The model covers the checksum, the request framing, the response        *)
(* reassembly loop with its deadline, the parse of the reassembled bytes,  *)
(* the register and fault decoding, and the polling loops of both entry    *)
(* scripts over the configured batteries. Bytes are naturals 0..255, byte  *)
(* strings are sequences of bytes, time is counted in ticks of             *)
(* 1/TicksPerTimeout of the read timeout.                                  *)
(***************************************************************************)
EXTENDS Integers, Sequences, FiniteSets, TLC

VARIABLES
    script,       \* which entry script runs: "new_main" or "main"
    pc,           \* control point of the running script / harness
    retpc,        \* where read_modbus_response returns to
    port,         \* serial handle: "unopened", "open", "closed"
    exc,          \* the exception that ended the script / the call, or "none"
    cycle,        \* `cycle`, the cycle counter
    dev,          \* index into BATTERIES of the battery being polled
    tx,           \* bytes of the last request handed to ser.write
    ntx,          \* number of requests written in the current cycle
    wire,         \* bytes sent by the devices and not yet read by the script
    sent,         \* the frame the battery answered the last request with
    nlate,        \* answers that were left unread and arrived late so far
    response,     \* read_modbus_response: local `response`
    elapsed,      \* read_modbus_response: time.time() - start_time, in ticks
    nreads,       \* read_modbus_response: passes in which ser.read gave bytes
    result,       \* value returned by the last read_modbus_response
    cause,        \* which return statement of read_modbus_response was taken
    cell_temps,   \* new_main.main: local `cell_temps`
    nrows,        \* new_main.main: table rows printed so far in this cycle
    row,          \* new_main.main: the table row printed last
    battery_data, \* main.py: the dict battery_data, as the list of its entries
    arg,          \* pure-function harness: the input
    out           \* pure-function harness: the output

ctlVars == <<script, retpc>>
loopVars == <<cycle, dev>>
txVars == <<tx, ntx>>
lineVars == <<wire, sent, nlate>>
callVars == <<response, elapsed, nreads>>
retVars == <<result, cause>>
printVars == <<cell_temps, nrows, row, battery_data>>
harnessVars == <<arg, out>>

vars == <<pc, port, exc, ctlVars, loopVars, txVars, lineVars, callVars,
          retVars, printVars, harnessVars>>

-----------------------------------------------------------------------------
(* Bounds of the model *)

\* ticks per read timeout (the clock's resolution)
TicksPerTimeout == 2
\* polling cycles explored before the model stops
MaxCycles == 2
\* an answer of up to MaxFineLen bytes, alone on the line, arrives in any
\* chunking; otherwise a read finds all or half of the unread bytes, or none
MaxFineLen == 9
\* answers per run that arrive late: wholly unread at the timeout of their
\* own exchange, they reach the script during the next one (what is left of
\* any other unfinished answer never comes)
MaxLate == 1
\* longest byte string given to calculate_crc in the checksum harness
MaxCrcLen == 2

-----------------------------------------------------------------------------
(* Python values *)

Min(a, b) == IF a < b THEN a ELSE b

\* b[i:j] of Python, on a 1-based sequence (0-based i, j; clipped)
Slice(b, i, j) == SubSeq(b, i + 1, Min(j, Len(b)))

RECURSIVE Xor(_, _)
\* a ^ b on naturals
Xor(a, b) ==
    IF a = 0 THEN b
    ELSE IF b = 0 THEN a
    ELSE (((a % 2) + (b % 2)) % 2) + 2 * Xor(a \div 2, b \div 2)

RECURSIVE BitAnd(_, _)
\* a & b on naturals
BitAnd(a, b) ==
    IF a = 0 \/ b = 0 THEN 0
    ELSE ((a % 2) * (b % 2)) + 2 * BitAnd(a \div 2, b \div 2)

\* what struct.pack('>H', v) would give: high byte first
PackLE16Swapped(v) == <<(v \div 256) % 256, v % 256>>
\* struct.pack('<H', v)
PackLE16(v) == <<v % 256, (v \div 256) % 256>>

\* what struct.unpack('<H', b)[0] would give: low byte first
UnpackBE16Swapped(b) == b[2] * 256 + b[1]
\* struct.unpack('>H', b)[0] for a 2-byte string b
UnpackBE16(b) == b[1] * 256 + b[2]

-----------------------------------------------------------------------------
(* calculate_crc *)

CRC_INIT == 65535
CRC_POLY == 40961

\* one pass of the inner loop: `if crc & 1: crc = (crc >> 1) ^ 0xA001 else crc >>= 1`
CrcShift(crc) ==
    IF BitAnd(crc, 1) # 0 THEN Xor(crc \div 2, CRC_POLY) ELSE crc \div 2

RECURSIVE CrcBits(_, _)
\* `for _ in range(n)` of the inner loop
CrcBits(crc, n) ==
    IF n = 0 THEN crc
    ELSE LET c == CrcShift(crc) IN IF c >= 0 THEN CrcBits(c, n - 1) ELSE 0

RECURSIVE CrcRange(_, _, _, _)
\* the outer loop over data[lo..hi], bytes taken in order: `crc ^= byte`, then
\* the 8 shifts. The range is split in two halves, the first done before the
\* second, only to keep the evaluation shallow on frames of 100 bytes.
CrcRange(crc, data, lo, hi) ==
    IF lo > hi THEN crc
    ELSE IF lo = hi THEN CrcBits(Xor(crc, data[lo]), 8)
    ELSE LET mid == (lo + hi) \div 2
             c == CrcRange(crc, data, lo, mid)
         IN  IF c >= 0 THEN CrcRange(c, data, mid + 1, hi) ELSE 0

\* the integer `crc` at the return statement
Crc16(data) == CrcRange(CRC_INIT, data, 1, Len(data))

calculate_crc(data) == PackLE16(Crc16(data))

-----------------------------------------------------------------------------
(* send_modbus_request: the bytes handed to ser.write *)

FC_READ == 3
FC_ERROR_BIT == 128

\* what struct.pack('<BBHH', ...) would give: low bytes first
PackRequestLE(slave_id, function_code, start_addr, count) ==
    <<slave_id, function_code,
      start_addr % 256, start_addr \div 256,
      count % 256, count \div 256>>

\* struct.pack('>BBHH', slave_id, function_code, start_addr, count)
PackRequest(slave_id, function_code, start_addr, count) ==
    <<slave_id, function_code,
      start_addr \div 256, start_addr % 256,
      count \div 256, count % 256>>

\* struct.pack raises struct.error outside the B / H ranges
PackRequestOk(slave_id, function_code, start_addr, count) ==
    /\ slave_id \in 0..255
    /\ function_code \in 0..255
    /\ start_addr \in 0..65535
    /\ count \in 0..65535

\* what `request = crc + frame` would give
RequestBytesCrcFirst(slave_id, function_code, start_addr, count) ==
    LET frame == PackRequest(slave_id, function_code, start_addr, count)
    IN  calculate_crc(frame) \o frame
\* `request = frame + crc`
RequestBytes(slave_id, function_code, start_addr, count) ==
    LET frame == PackRequest(slave_id, function_code, start_addr, count)
    IN  frame \o calculate_crc(frame)

-----------------------------------------------------------------------------
(* read_modbus_response: values, loop condition, frame check, parse *)

NoneVal == [isNone |-> TRUE, val |-> <<>>]
ListVal(s) == [isNone |-> FALSE, val |-> s]

\* Python truth value of a returned value: not None and not the empty list
Truthy(v) == ~v.isNone /\ v.val # <<>>

\* what `while True` would give
TimeLeftForever(e) == TRUE
\* `while time.time() - start_time < timeout`
TimeLeft(e) == e < TicksPerTimeout

\* the `break` conditions inside the loop
\* new_main.py: function 3 needs 5 + byte_count bytes, an error response 5
\* main.py: 5 + response[2] bytes whatever the function code
LoopBreaks(s, r) ==
    /\ Len(r) >= 5
    /\ IF s = "new_main"
       THEN \/ r[2] = FC_READ /\ Len(r) >= 5 + r[3]
            \/ r[2] # FC_READ /\ r[2] >= FC_ERROR_BIT
       ELSE Len(r) >= 5 + r[3]

\* number of passes of `for i in range(0, byte_count, 2)`
RegCount(byte_count) == (byte_count + 1) \div 2

\* every data[i:i+2] handed to struct.unpack('>H', ...) holds 2 bytes
RegistersOk(data, byte_count) ==
    \A k \in 1..RegCount(byte_count) : 2 * k <= Len(data)

\* the list the loop would build with '<H'
RegistersLE(data, byte_count) ==
    [k \in 1..RegCount(byte_count) |->
        UnpackBE16Swapped(Slice(data, 2 * (k - 1), 2 * k))]
\* the list `registers` built by the loop
Registers(data, byte_count) ==
    [k \in 1..RegCount(byte_count) |->
        UnpackBE16(Slice(data, 2 * (k - 1), 2 * k))]

Returns(v, c) == [raises |-> "none", ret |-> v, cause |-> c]
Raises(e) == [raises |-> e, ret |-> NoneVal, cause |-> "raised"]

\* the code after the loop: `if response: ... return None`
ParseResponse(s, r) ==
    IF r = <<>> THEN Returns(NoneVal, "no_response")
    ELSE IF Len(r) < 2 THEN Raises("IndexError")
    ELSE IF r[2] >= FC_ERROR_BIT THEN
        IF s = "main" /\ Len(r) < 3 THEN Raises("IndexError")
        ELSE Returns(NoneVal, "error_response")
    ELSE IF r[2] = FC_READ THEN
        IF Len(r) < 3 THEN Raises("IndexError")
        ELSE LET byte_count == r[3]
                 data == Slice(r, 3, 3 + byte_count)
             IN  IF RegistersOk(data, byte_count)
                 THEN Returns(ListVal(Registers(data, byte_count)), "registers")
                 ELSE Raises("struct.error")
    ELSE Returns(NoneVal, "other_function")

-----------------------------------------------------------------------------
(* The devices on the bus: the frames they answer with *)

\* the data bytes of a register list, high byte first
RegBytes(regs) ==
    [i \in 1..(2 * Len(regs)) |->
        IF i % 2 = 1 THEN regs[(i + 1) \div 2] \div 256
        ELSE regs[i \div 2] % 256]

WithCrc(body) == body \o calculate_crc(body)

\* ID(1) + Func(1) + Bytes(1) + Data(N) + CRC(2)
NormalFrame(addr, regs) == WithCrc(<<addr, FC_READ, 2 * Len(regs)>> \o RegBytes(regs))

\* ID(1) + Func(1) + Err(1) + CRC(2)
ErrorFrame(addr, code) == WithCrc(<<addr, FC_READ + FC_ERROR_BIT, code>>)

\* a frame whose last checksum byte was corrupted on the bus
Corrupt(frame) ==
    [i \in 1..Len(frame) |->
        IF i = Len(frame) THEN (frame[i] + 1) % 256 ELSE frame[i]]

-----------------------------------------------------------------------------
(* address.py: register map and fault decoding *)

BATT_TEMP_START_ADDRESS == 48
BATT_TEMP_REGISTER_COUNT == 8
BATT_TEMP_OFFSET_CELL_1 == 0
BATT_TEMP_OFFSET_CELL_2 == 1
BATT_TEMP_OFFSET_CELL_3 == 2
BATT_TEMP_OFFSET_CELL_4 == 3
START_ADDRESS == 56
REGISTER_COUNT == 50
OFFSET_VOLTAGE == 0
OFFSET_CURRENT == 1
OFFSET_SOC == 2
OFFSET_MAX_CELL_V == 6
OFFSET_MIN_CELL_V == 8
OFFSET_DIFF_CELL_V == 10
OFFSET_CHG_DISCHG_STATUS == 16
OFFSET_REMAINING_CAP == 19
OFFSET_CYCLES == 20
OFFSET_FAULT_1 == 46
OFFSET_FAULT_2 == 47
OFFSET_FAULT_3 == 48
OFFSET_FAULT_4 == 49
CURRENT_OFFSET == 30000
TEMP_OFFSET == 40

\* the labels appended for bits 0..7 of each decoded byte, in source order
F1_MSB_LABELS ==
    <<"Cell V High L1", "Cell V High L2", "Cell V Low L1", "Cell V Low L2",
      "Pack V High L1", "Pack V High L2", "Pack V Low L1", "Pack V Low L2">>
F1_LSB_LABELS ==
    <<"Chg Temp High L1", "Chg Temp High L2", "Chg Temp Low L1",
      "Chg Temp Low L2", "Dischg Temp High L1", "Dischg Temp High L2",
      "Dischg Temp Low L1", "Dischg Temp Low L2">>
F2_MSB_LABELS ==
    <<"Chg Overcur L1", "Chg Overcur L2", "Dischg Overcur L1",
      "Dischg Overcur L2", "SOC High L1", "SOC High L2", "SOC Low L1",
      "SOC Low L2">>
F2_LSB_LABELS ==
    <<"Diff V High L1", "Diff V High L2", "Diff Temp High L1",
      "Diff Temp High L2", "MOS Temp High L1", "MOS Temp High L2",
      "Amb Temp High L1", "Amb Temp High L2">>
F3_MSB_LABELS ==
    <<"Chg MOS Temp Warn", "Dischg MOS Temp Warn", "Chg MOS Sensor Fail",
      "Dischg MOS Sensor Fail", "Chg MOS Adhesion", "Dischg MOS Adhesion",
      "Chg MOS Open Circ", "Dischg MOS Open Circ">>
F3_LSB_LABELS ==
    <<"AFE Fail", "Volt Sensor Disconn", "Temp Sensor Fail", "EEPROM Fail",
      "RTC Fail", "Precharge Fail", "Veh Comm Fail", "Int Net Fail">>
F4_MSB_LABELS ==
    <<"Curr Mod Fail", "Press Mod Fail", "Short Circ", "Low V Chg Prohibit",
      "GPS/Switch MOS", "Chg Cab Offline">>

\* 1 << n
Pow2(n) == IF n = 0 THEN 1 ELSE IF n = 1 THEN 2 ELSE IF n = 2 THEN 4
           ELSE IF n = 3 THEN 8 ELSE IF n = 4 THEN 16 ELSE IF n = 5 THEN 32
           ELSE IF n = 6 THEN 64 ELSE 128

RECURSIVE ByteFaults(_, _, _)
\* the run of `if byte & mask: faults.append(label)` from the i-th label on
ByteFaults(byte, labels, i) ==
    IF i > Len(labels) THEN <<>>
    ELSE (IF BitAnd(byte, Pow2(i - 1)) # 0 THEN <<labels[i]>> ELSE <<>>)
         \o ByteFaults(byte, labels, i + 1)

\* what the high byte would be without the shift: f & 0xFF
MsbOfUnshifted(f) == BitAnd(f, 255)
\* (f >> 8) & 0xFF and f & 0xFF
MsbOf(f) == BitAnd(f \div 256, 255)
LsbOf(f) == BitAnd(f, 255)

get_fault_list(f1, f2, f3, f4) ==
    ByteFaults(MsbOf(f1), F1_MSB_LABELS, 1) \o ByteFaults(LsbOf(f1), F1_LSB_LABELS, 1)
    \o ByteFaults(MsbOf(f2), F2_MSB_LABELS, 1) \o ByteFaults(LsbOf(f2), F2_LSB_LABELS, 1)
    \o ByteFaults(MsbOf(f3), F3_MSB_LABELS, 1) \o ByteFaults(LsbOf(f3), F3_LSB_LABELS, 1)
    \o ByteFaults(MsbOf(f4), F4_MSB_LABELS, 1)

-----------------------------------------------------------------------------
(* new_main.main() and the main.py script: configuration and decoding *)

BATTERIES ==
    <<[request_id |-> 129, response_id |-> 81, name |-> "Battery 1"],
      [request_id |-> 130, response_id |-> 82, name |-> "Battery 2"],
      [request_id |-> 131, response_id |-> 83, name |-> "Battery 3"]>>

\* registers[offset] of Python on a 1-based sequence
Reg(registers, offset) == registers[offset + 1]

\* new_main.py: `if temp_registers and len(temp_registers) >= 4`
TempAccepted(v) == Truthy(v) /\ Len(v.val) >= 4

\* what the list would be without the subtraction of TEMP_OFFSET
CellTempsRaw(v) ==
    IF Truthy(v) /\ Len(v.val) >= 4
    THEN <<Reg(v.val, BATT_TEMP_OFFSET_CELL_1),
           Reg(v.val, BATT_TEMP_OFFSET_CELL_2),
           Reg(v.val, BATT_TEMP_OFFSET_CELL_3),
           Reg(v.val, BATT_TEMP_OFFSET_CELL_4)>>
    ELSE <<>>

\* the list `cell_temps` after the temperature read
CellTemps(v) ==
    IF TempAccepted(v)
    THEN <<Reg(v.val, BATT_TEMP_OFFSET_CELL_1) - TEMP_OFFSET,
           Reg(v.val, BATT_TEMP_OFFSET_CELL_2) - TEMP_OFFSET,
           Reg(v.val, BATT_TEMP_OFFSET_CELL_3) - TEMP_OFFSET,
           Reg(v.val, BATT_TEMP_OFFSET_CELL_4) - TEMP_OFFSET>>
    ELSE <<>>

\* what `len(registers) >= address.REGISTER_COUNT` would accept
PackAcceptedAtLeast(v) == Truthy(v) /\ Len(v.val) >= REGISTER_COUNT
\* what an acceptance test that also asked for a clear fault word 1 would do
PackAcceptedNoFault(v) ==
    Truthy(v) /\ Len(v.val) = REGISTER_COUNT /\ v.val[OFFSET_FAULT_1 + 1] = 0
\* new_main.py: `if registers and len(registers) == address.REGISTER_COUNT`
PackAccepted(v) == Truthy(v) /\ Len(v.val) = REGISTER_COUNT

\* status_str
StatusStr(status_val) ==
    IF status_val = 1 THEN "Charge"
    ELSE IF status_val = 2 THEN "Dischg"
    ELSE "Idle"

\* the table row printed for a battery whose pack data was accepted; the
\* values divided by 10.0 in the source are kept in tenths
ReadingRow(name, registers, temps) ==
    [kind |-> "reading",
     name |-> name,
     voltage10 |-> Reg(registers, OFFSET_VOLTAGE),
     current10 |-> Reg(registers, OFFSET_CURRENT) - CURRENT_OFFSET,
     soc10 |-> Reg(registers, OFFSET_SOC),
     min_v |-> Reg(registers, OFFSET_MIN_CELL_V),
     max_v |-> Reg(registers, OFFSET_MAX_CELL_V),
     diff_v |-> Reg(registers, OFFSET_DIFF_CELL_V),
     status |-> StatusStr(Reg(registers, OFFSET_CHG_DISCHG_STATUS)),
     cycles |-> Reg(registers, OFFSET_CYCLES),
     rem_cap10 |-> Reg(registers, OFFSET_REMAINING_CAP),
     cell_temps |-> temps,
     nregs |-> Len(registers),
     faults |-> get_fault_list(Reg(registers, OFFSET_FAULT_1),
                               Reg(registers, OFFSET_FAULT_2),
                               Reg(registers, OFFSET_FAULT_3),
                               Reg(registers, OFFSET_FAULT_4))]

\* no row printed yet in this cycle
NoRow == [kind |-> "none"]

\* the row of dashes printed otherwise, with its status column
FailedRow(name) == [kind |-> "failed", name |-> name, status |-> "Timeout"]

\* the row printed after the pack read
PackRow(name, v, temps) ==
    IF PackAccepted(v) THEN ReadingRow(name, v.val, temps) ELSE FailedRow(name)

\* main.py: `if registers: battery_data[battery_name] = registers`
BatteryData(data, name, v) ==
    IF Truthy(v)
    THEN Append(data, [kind |-> "cells", name |-> name, registers |-> v.val])
    ELSE data

-----------------------------------------------------------------------------
(* The serial line and the clock *)

\* ser.in_waiting at one pass of the read loop: how many of the unread bytes
\* have reached the receive buffer since the last pass
ChunkSizes(w) ==
    IF Len(sent) <= MaxFineLen /\ Len(w) <= MaxFineLen THEN 0..Len(w)
    ELSE {0, Len(w), (Len(w) + 1) \div 2}

\* the clock moves on while read_modbus_response waits
Tick ==
    /\ pc = "read_loop"
    /\ elapsed < TicksPerTimeout
    /\ elapsed' = elapsed + 1
    /\ UNCHANGED <<pc, port, exc, ctlVars, loopVars, txVars, lineVars,
                   response, nreads, retVars, printVars, harnessVars>>

-----------------------------------------------------------------------------
(* How the scripts end on an exception *)

\* An exception leaving the try block: the matching except clause runs, then
\* (new_main.py) the finally clause, and the script ends.
\* new_main.py: `if 'ser' in locals() and ser.is_open: ser.close()`.
\* main.py: ser.close() only in the KeyboardInterrupt clause.
PortAfter(s, e, p) ==
    IF s = "new_main"
    THEN IF p = "open" THEN "closed" ELSE p
    ELSE IF e = "KeyboardInterrupt" /\ p = "open" THEN "closed" ELSE p

\* main.py: ser.close() in the KeyboardInterrupt clause with `ser` never bound
ExcAfter(s, e, p) ==
    IF s = "main" /\ e = "KeyboardInterrupt" /\ p = "unopened"
    THEN "NameError" ELSE e

\* the script ends through exception e; the call's locals and the line are gone
Abort(e) ==
    /\ pc' = "exit"
    /\ exc' = ExcAfter(script, e, port)
    /\ port' = PortAfter(script, e, port)
    /\ wire' = <<>>
    /\ elapsed' = 0
    /\ nreads' = 0
    /\ UNCHANGED <<ctlVars, loopVars, txVars, sent, nlate, response, retVars,
                   printVars, harnessVars>>

-----------------------------------------------------------------------------
(* read_modbus_response, step by step *)

\* `start_time = time.time(); response = b''`
ReadEnter ==
    /\ pc = "read_call"
    /\ pc' = "read_loop"
    /\ elapsed' = 0
    /\ response' = <<>>
    /\ nreads' = 0
    /\ UNCHANGED <<port, exc, ctlVars, loopVars, txVars, lineVars, retVars,
                   printVars, harnessVars>>

\* one pass of the while loop: `if ser.in_waiting > 0` read the k bytes that
\* wait, then test for a complete frame
ReadLoopIter ==
    /\ pc = "read_loop"
    /\ TimeLeft(elapsed)
    /\ \E k \in ChunkSizes(wire) :
        LET r == response \o SubSeq(wire, 1, k)
        IN  /\ response' = r
            /\ wire' = SubSeq(wire, k + 1, Len(wire))
            /\ nreads' = IF k > 0 THEN nreads + 1 ELSE nreads
            /\ pc' = IF LoopBreaks(script, r) THEN "read_parse" ELSE "read_loop"
    /\ UNCHANGED <<port, exc, ctlVars, loopVars, txVars, sent, nlate, elapsed,
                   retVars, printVars, harnessVars>>

\* the while condition fails: the deadline has passed
ReadLoopExit ==
    /\ pc = "read_loop"
    /\ ~TimeLeft(elapsed)
    /\ pc' = "read_parse"
    /\ UNCHANGED <<port, exc, ctlVars, loopVars, txVars, lineVars, callVars,
                   retVars, printVars, harnessVars>>

\* the code after the loop: return a value, or raise (and the script ends)
ReadParse ==
    /\ pc = "read_parse"
    /\ LET p == ParseResponse(script, response)
       IN  /\ result' = p.ret
           /\ cause' = p.cause
           /\ IF retpc = "harness_done"
              THEN \* the one-call harness keeps the call's locals to look at
                   /\ exc' = p.raises
                   /\ pc' = retpc
                   /\ UNCHANGED <<port, wire, elapsed, nreads>>
              ELSE IF p.raises = "none"
              THEN /\ pc' = retpc
                   /\ elapsed' = 0
                   /\ nreads' = 0
                   /\ UNCHANGED <<port, exc, wire>>
              ELSE /\ pc' = "exit"
                   /\ exc' = ExcAfter(script, p.raises, port)
                   /\ port' = PortAfter(script, p.raises, port)
                   /\ wire' = <<>>
                   /\ elapsed' = 0
                   /\ nreads' = 0
    /\ UNCHANGED <<ctlVars, loopVars, txVars, sent, nlate, response,
                   printVars, harnessVars>>

ReadSteps == ReadEnter \/ ReadLoopIter \/ ReadLoopExit \/ ReadParse

-----------------------------------------------------------------------------
(* The polling programs: new_main.main() and the main.py script *)

\* registers a healthy pack reports for 0x38..0x69: 123.4 V, 5.0 A, 87.5 %,
\* charging, fault word 1 = 0x0100
PackRegs ==
    [i \in 1..REGISTER_COUNT |->
        IF i = OFFSET_VOLTAGE + 1 THEN 1234
        ELSE IF i = OFFSET_CURRENT + 1 THEN 30050
        ELSE IF i = OFFSET_SOC + 1 THEN 875
        ELSE IF i = OFFSET_MAX_CELL_V + 1 THEN 3400
        ELSE IF i = OFFSET_MIN_CELL_V + 1 THEN 3300
        ELSE IF i = OFFSET_DIFF_CELL_V + 1 THEN 100
        ELSE IF i = OFFSET_CHG_DISCHG_STATUS + 1 THEN 1
        ELSE IF i = OFFSET_REMAINING_CAP + 1 THEN 500
        ELSE IF i = OFFSET_CYCLES + 1 THEN 12
        ELSE IF i = OFFSET_FAULT_1 + 1 THEN 256
        ELSE 0]

\* registers reported for 0x30..0x37: 5, 6, 7 and 8 degrees
TempRegs == <<45, 46, 47, 48, 0, 0, 0, 0>>

\* what battery b may answer to the temperature request: nothing, the 8
\* registers, only 4 or only 3 of them, or an exception response
TempAnswers(b) ==
    {<<>>,
     NormalFrame(b.response_id, TempRegs),
     NormalFrame(b.response_id, SubSeq(TempRegs, 1, 4)),
     NormalFrame(b.response_id, SubSeq(TempRegs, 1, 3)),
     ErrorFrame(b.response_id, 2)}

\* what battery b may answer to the pack-data request: nothing, the 50
\* registers, one register less or more, or an exception response
PackAnswers(b) ==
    {<<>>,
     NormalFrame(b.response_id, PackRegs),
     NormalFrame(b.response_id, SubSeq(PackRegs, 1, REGISTER_COUNT - 1)),
     NormalFrame(b.response_id, PackRegs \o <<0>>),
     ErrorFrame(b.response_id, 2)}

\* what battery b may answer to main.py's request for 16 cell voltages
CellAnswers(b) ==
    {<<>>,
     NormalFrame(b.response_id, [i \in 1..16 |-> 3300 + i]),
     ErrorFrame(b.response_id, 2)}

\* the answers of each configured battery, by its index
TempAnswerTable == [d \in 1..Len(BATTERIES) |-> TempAnswers(BATTERIES[d])]
PackAnswerTable == [d \in 1..Len(BATTERIES) |-> PackAnswers(BATTERIES[d])]
CellAnswerTable == [d \in 1..Len(BATTERIES) |-> CellAnswers(BATTERIES[d])]

\* control points inside the try block
TryPcs ==
    {"open", "cycle_start", "send_temp", "after_temp", "send_pack",
     "after_pack", "send_cells", "after_cells", "overview", "cycle_end",
     "read_call", "read_loop", "read_parse"}

\* control points at which the script is inside a pyserial call
SerialPcs == {"send_temp", "send_pack", "send_cells", "read_loop"}

\* serial.Serial(...): the port opens, or the constructor raises
Open ==
    /\ pc = "open"
    /\ \/ /\ port' = "open"
          /\ pc' = "cycle_start"
          /\ UNCHANGED <<exc, ctlVars, loopVars, txVars, lineVars, callVars,
                         printVars, harnessVars>>
       \/ Abort("SerialException")
    /\ UNCHANGED retVars

\* `cycle += 1` and the table header (main.py: `battery_data = {}`)
CycleStart ==
    /\ pc = "cycle_start"
    /\ cycle < MaxCycles
    /\ cycle' = cycle + 1
    /\ nrows' = 0
    /\ row' = NoRow
    /\ battery_data' = <<>>
    /\ ntx' = 0
    /\ dev' = 1
    /\ pc' = IF script = "new_main" THEN "send_temp" ELSE "send_cells"
    /\ UNCHANGED <<port, exc, ctlVars, tx, lineVars, callVars, retVars,
                   cell_temps, harnessVars>>

\* send_modbus_request(ser, request_id, 0x03, start, count) followed by the
\* call of read_modbus_response. The addressed battery answers with one of
\* `answers`; an earlier answer that was not read is still to come (`late`)
\* or never comes.
SendAndCall(start, count, answers, ret) ==
    /\ tx' = RequestBytes(BATTERIES[dev].request_id, FC_READ, start, count)
    /\ ntx' = ntx + 1
    /\ \E f \in answers, late \in BOOLEAN :
        /\ late => (wire # <<>> /\ wire = sent /\ nlate < MaxLate)
        /\ wire' = (IF late THEN wire ELSE <<>>) \o f
        /\ nlate' = IF late THEN nlate + 1 ELSE nlate
        /\ sent' = f
    /\ pc' = "read_call"
    /\ retpc' = ret
    /\ result' = NoneVal
    /\ cause' = "none"
    /\ response' = <<>>
    /\ UNCHANGED <<port, exc, script, loopVars, elapsed, nreads, printVars,
                   harnessVars>>

SendTemp ==
    /\ pc = "send_temp"
    /\ SendAndCall(BATT_TEMP_START_ADDRESS, BATT_TEMP_REGISTER_COUNT,
                   TempAnswerTable[dev], "after_temp")

\* what a loop would do that went on to the next battery after the
\* temperature read, with no pack-data request
AfterTempSkipsPack ==
    /\ pc = "after_temp"
    /\ cell_temps' = CellTemps(result)
    /\ nrows' = nrows + 1
    /\ IF dev < Len(BATTERIES)
       THEN dev' = dev + 1 /\ pc' = "send_temp"
       ELSE dev' = dev /\ pc' = "cycle_end"
    /\ UNCHANGED <<port, exc, ctlVars, cycle, txVars, lineVars, callVars,
                   retVars, row, battery_data, harnessVars>>

\* `cell_temps = []` and the parse of the temperature registers
AfterTemp ==
    /\ pc = "after_temp"
    /\ cell_temps' = CellTemps(result)
    /\ pc' = "send_pack"
    /\ UNCHANGED <<port, exc, ctlVars, loopVars, txVars, lineVars, callVars,
                   retVars, nrows, row, battery_data, harnessVars>>

SendPack ==
    /\ pc = "send_pack"
    /\ SendAndCall(START_ADDRESS, REGISTER_COUNT,
                   PackAnswerTable[dev], "after_pack")

\* the row printed for the battery, then the next battery or the cycle's end
AfterPack ==
    /\ pc = "after_pack"
    /\ row' = PackRow(BATTERIES[dev].name, result, cell_temps)
    /\ nrows' = nrows + 1
    /\ IF dev < Len(BATTERIES)
       THEN dev' = dev + 1 /\ pc' = "send_temp"
       ELSE dev' = dev /\ pc' = "cycle_end"
    /\ UNCHANGED <<port, exc, ctlVars, cycle, txVars, lineVars, callVars,
                   retVars, cell_temps, battery_data, harnessVars>>

\* main.py: send_modbus_request(ser, request_id, 0x03, 0x0000, 0x0010)
SendCells ==
    /\ pc = "send_cells"
    /\ SendAndCall(0, 16, CellAnswerTable[dev], "after_cells")

\* main.py: `if registers: battery_data[battery_name] = registers`
AfterCells ==
    /\ pc = "after_cells"
    /\ battery_data' = BatteryData(battery_data, BATTERIES[dev].name, result)
    /\ IF dev < Len(BATTERIES)
       THEN dev' = dev + 1 /\ pc' = "send_cells"
       ELSE dev' = dev /\ pc' = "overview"
    /\ UNCHANGED <<port, exc, ctlVars, cycle, txVars, lineVars, callVars,
                   retVars, cell_temps, nrows, row, harnessVars>>

\* main.py: the overview lines, one per entry of battery_data
Overview ==
    /\ pc = "overview"
    /\ pc' = "cycle_end"
    /\ UNCHANGED <<port, exc, ctlVars, loopVars, txVars, lineVars, callVars,
                   retVars, printVars, harnessVars>>

\* time.sleep(LOOP_DELAY), then the next pass of `while True`
CycleEnd ==
    /\ pc = "cycle_end"
    /\ pc' = "cycle_start"
    /\ UNCHANGED <<port, exc, ctlVars, loopVars, txVars, lineVars, callVars,
                   retVars, printVars, harnessVars>>

\* Ctrl+C while the script is inside its try block
KeyboardInterrupt ==
    /\ pc \in TryPcs
    /\ retpc # "harness_done"
    /\ Abort("KeyboardInterrupt")
    /\ UNCHANGED retVars

\* ser.write, ser.in_waiting or ser.read raises a SerialException
IOFault ==
    /\ pc \in SerialPcs
    /\ retpc # "harness_done"
    /\ Abort("SerialException")
    /\ UNCHANGED retVars

\* nothing sent, nothing read, nothing printed yet
InitRest ==
    /\ exc = "none"
    /\ cycle = 0
    /\ dev = 1
    /\ tx = <<>>
    /\ ntx = 0
    /\ nlate = 0
    /\ response = <<>>
    /\ elapsed = 0
    /\ nreads = 0
    /\ result = NoneVal
    /\ cause = "none"
    /\ cell_temps = <<>>
    /\ nrows = 0
    /\ row = NoRow
    /\ battery_data = <<>>

Scripts == {"new_main", "main"}

Init ==
    /\ script \in Scripts
    /\ pc = "open"
    /\ retpc = "none"
    /\ wire = <<>>
    /\ sent = <<>>
    /\ port = "unopened"
    /\ arg = <<>>
    /\ out = <<>>
    /\ InitRest

Next ==
    \/ Open \/ CycleStart \/ SendTemp \/ AfterTemp \/ SendPack \/ AfterPack
    \/ SendCells \/ AfterCells \/ Overview \/ CycleEnd
    \/ ReadSteps \/ Tick
    \/ KeyboardInterrupt \/ IOFault

Spec == Init /\ [][Next]_vars

-----------------------------------------------------------------------------
(* One call of read_modbus_response on a line that carries one answer *)

\* register values the modelled devices report
RegSamples == {0, 1, 258, 65535}

\* register lists of 0, 1 and 2 registers
ShortRegLists ==
    {<<>>} \cup {<<a>> : a \in RegSamples}
           \cup {<<a, b>> : a \in {1, 258}, b \in RegSamples}

\* what the addressed device may put on the wire for one request
ReadStreams ==
    {<<>>}
    \cup {NormalFrame(81, regs) : regs \in ShortRegLists}
    \cup {Corrupt(NormalFrame(81, regs)) : regs \in {<<1>>, <<258, 1>>}}
    \cup {ErrorFrame(81, code) : code \in {1, 2}}
    \cup {WithCrc(<<81, FC_READ, 3, 1, 2, 3>>)}
    \cup {WithCrc(<<81, 4, 2, 0, 1>>)}

\* the call is made on an open port, the answer already on its way
InitRead ==
    /\ script \in Scripts
    /\ pc = "read_call"
    /\ retpc = "harness_done"
    /\ wire \in ReadStreams
    /\ sent = wire
    /\ port = "open"
    /\ arg = <<>>
    /\ out = <<>>
    /\ InitRest

NextRead == ReadSteps \/ Tick

SpecRead == InitRead /\ [][NextRead]_vars

\* the clock runs and the interpreter keeps executing the function
FairSpecRead ==
    SpecRead /\ WF_vars(Tick) /\ WF_vars(ReadEnter) /\ WF_vars(ReadLoopExit)
             /\ WF_vars(ReadParse)

-----------------------------------------------------------------------------
(* calculate_crc and send_modbus_request applied to chosen inputs *)

ByteSamples == {0, 1, 3, 10, 128, 255}

\* byte strings of up to n sample bytes
ByteStrings(n) == UNION {[1..k -> ByteSamples] : k \in 0..n}

\* the inputs of calculate_crc: short strings and one 6-byte request body
CrcInputs == ByteStrings(MaxCrcLen) \cup {<<1, 3, 0, 0, 0, 10>>}

\* the inputs of send_modbus_request: slave_id, function_code, start_addr, count
RequestInputs ==
    {<<a, FC_READ, s, c>> :
        a \in {0, 1, 129, 130, 131, 255},
        s \in {0, BATT_TEMP_START_ADDRESS, START_ADDRESS, 255, 256, 65535},
        c \in {0, 1, BATT_TEMP_REGISTER_COUNT, 16, REGISTER_COUNT, 125, 126,
                65535, 65536}}

InitCrc ==
    /\ script \in Scripts
    /\ retpc = "harness_done"
    /\ \/ pc = "crc_call" /\ arg \in CrcInputs
       \/ pc = "send_call" /\ arg \in RequestInputs
    /\ out = <<>>
    /\ wire = <<>>
    /\ sent = <<>>
    /\ port = "open"
    /\ InitRest

\* `out = calculate_crc(arg)`
CalcCrcCall ==
    /\ pc = "crc_call"
    /\ out' = calculate_crc(arg)
    /\ pc' = retpc
    /\ UNCHANGED <<port, exc, ctlVars, loopVars, txVars, lineVars, callVars,
                   retVars, printVars, arg>>

\* `send_modbus_request(ser, *arg)`: the request goes to ser.write, unless
\* struct.pack raises on a value outside the B / H ranges
SendRequestCall ==
    /\ pc = "send_call"
    /\ IF PackRequestOk(arg[1], arg[2], arg[3], arg[4])
       THEN /\ tx' = RequestBytes(arg[1], arg[2], arg[3], arg[4])
            /\ ntx' = ntx + 1
            /\ exc' = exc
       ELSE /\ exc' = "struct.error"
            /\ UNCHANGED txVars
    /\ pc' = retpc
    /\ UNCHANGED <<port, ctlVars, loopVars, lineVars, callVars, retVars,
                   printVars, harnessVars>>

NextCrc == CalcCrcCall \/ SendRequestCall

SpecCrc == InitCrc /\ [][NextCrc]_vars

-----------------------------------------------------------------------------
(* The decoding of main() and get_fault_list applied to chosen registers *)

FaultWordSamples == {0, 1, 256, 33153, 65535}

\* the inputs of get_fault_list: f1, f2, f3, f4
FaultInputs ==
    {<<a, b, c, d>> : a \in FaultWordSamples, b \in FaultWordSamples,
                      c \in FaultWordSamples, d \in FaultWordSamples}

\* register lists of the temperature block 0x30..0x37
TempInputs ==
    {<<a, b, c, d, 0, 0, 0, 0>> : a \in {0, 40, 45}, b \in {39, 46},
                                  c \in {47, 65535}, d \in {48, 165}}

\* PackRegs with other values in the registers named
PackRegsWith(v, c, s, cap, st, f1, f4) ==
    [i \in 1..REGISTER_COUNT |->
        IF i = OFFSET_VOLTAGE + 1 THEN v
        ELSE IF i = OFFSET_CURRENT + 1 THEN c
        ELSE IF i = OFFSET_SOC + 1 THEN s
        ELSE IF i = OFFSET_REMAINING_CAP + 1 THEN cap
        ELSE IF i = OFFSET_CHG_DISCHG_STATUS + 1 THEN st
        ELSE IF i = OFFSET_FAULT_1 + 1 THEN f1
        ELSE IF i = OFFSET_FAULT_4 + 1 THEN f4
        ELSE PackRegs[i]]

\* register lists of the pack block 0x38..0x69
PackInputs ==
    {PackRegsWith(v, c, s, cap, st, f1, f4) :
        v \in {0, 1234, 65535}, c \in {0, 29900, 30000, 30050, 65535},
        s \in {0, 875}, cap \in {0, 500}, st \in {0, 1, 2},
        f1 \in {0, 256, 65535}, f4 \in {0, 1024}}

InitDecode ==
    /\ script = "new_main"
    /\ retpc = "none"
    /\ \/ pc = "fault_call" /\ arg \in FaultInputs
       \/ pc = "temp_call" /\ arg \in TempInputs
       \/ pc = "pack_call" /\ arg \in PackInputs
    /\ out = <<>>
    /\ wire = <<>>
    /\ sent = <<>>
    /\ port = "open"
    /\ InitRest

\* `fault_list = address.get_fault_list(f1, f2, f3, f4)`
FaultListCall ==
    /\ pc = "fault_call"
    /\ out' = get_fault_list(arg[1], arg[2], arg[3], arg[4])
    /\ pc' = "fault_done"
    /\ UNCHANGED <<port, exc, ctlVars, loopVars, txVars, lineVars, callVars,
                   retVars, printVars, arg>>

\* main(), lines 124-135, on the temperature registers `arg`
DecodeTemp ==
    /\ pc = "temp_call"
    /\ cell_temps' = CellTemps(ListVal(arg))
    /\ pc' = "temp_done"
    /\ UNCHANGED <<port, exc, ctlVars, loopVars, txVars, lineVars, callVars,
                   retVars, nrows, row, battery_data, harnessVars>>

\* main(), lines 145-186, on the pack registers `arg`
DecodePack ==
    /\ pc = "pack_call"
    /\ row' = PackRow(BATTERIES[dev].name, ListVal(arg), cell_temps)
    /\ nrows' = nrows + 1
    /\ pc' = "pack_done"
    /\ UNCHANGED <<port, exc, ctlVars, loopVars, txVars, lineVars, callVars,
                   retVars, cell_temps, battery_data, harnessVars>>

NextDecode == FaultListCall \/ DecodeTemp \/ DecodePack

SpecDecode == InitDecode /\ [][NextDecode]_vars

-----------------------------------------------------------------------------
(* Claims on read_modbus_response, checked on one call (SpecRead) *)

\* the checksum test of Modbus RTU on a complete frame: calculate_crc over all
\* bytes but the last two equals the last two
CrcValid(frame) ==
    /\ Len(frame) >= 2
    /\ calculate_crc(SubSeq(frame, 1, Len(frame) - 2))
         = SubSeq(frame, Len(frame) - 1, Len(frame))

\* a complete function-3 frame with an even byte-count field
IsNormalEvenFrame(f) ==
    /\ Len(f) >= 5
    /\ f[2] = FC_READ
    /\ f[3] % 2 = 0
    /\ Len(f) = 5 + f[3]

\* value i of the payload: payload[2i] * 256 + payload[2i + 1] (i from 0)
PayloadRegs(f) ==
    [i \in 1..(f[3] \div 2) |-> f[3 + 2 * i - 1] * 256 + f[3 + 2 * i]]

\* C1: whatever the chunking in which the loop read the bytes of a complete
\* normal frame with an even byte count before its deadline, the call returns
\* the N/2 register values payload[2i]*256 + payload[2i+1] and raises nothing.
C1_FragmentationIndependent ==
    (pc = "harness_done" /\ IsNormalEvenFrame(sent) /\ response = sent)
        => /\ exc = "none"
           /\ result = ListVal(PayloadRegs(sent))

\* a 2-register frame read one byte at a time has returned its registers
C1_Witness ==
    /\ pc = "harness_done"
    /\ IsNormalEvenFrame(sent)
    /\ response = sent
    /\ Len(sent) = 9
    /\ nreads = 9
    /\ result = ListVal(<<258, 65535>>)

\* C2 (as claimed): a deadline that passes with 1..expected_length-1 bytes
\* read gives the timeout outcome: None is returned, nothing is raised and
\* no register value is decoded from the partial bytes.
C2_PartialFrameTimesOut ==
    (/\ pc = "harness_done"
     /\ ~TimeLeft(elapsed)
     /\ response # <<>>
     /\ Len(response) < Len(sent))
        => /\ exc = "none"
           /\ result = NoneVal

\* C3: with no byte read, the loop ends at the deadline and the call returns
\* None without raising; past the deadline the loop reads nothing more; and
\* the loop always ends.
C3_ZeroBytesTimesOut ==
    /\ []((pc = "harness_done" /\ response = <<>>)
            => (result = NoneVal /\ exc = "none" /\ elapsed >= TicksPerTimeout))
    /\ [][(pc = "read_loop" /\ elapsed >= TicksPerTimeout)
            => (response' = response /\ pc' \in {"read_loop", "read_parse"})]_vars
    /\ ((pc = "read_loop") ~> (pc = "harness_done"))

\* the call timed out on a silent line
C3_Witness ==
    /\ pc = "harness_done"
    /\ sent = <<>>
    /\ nlate = 0
    /\ response = <<>>
    /\ elapsed = TicksPerTimeout
    /\ cause = "no_response"
    /\ result = NoneVal

\* C5 (as claimed): registers are returned for a complete frame only if the
\* CRC-16 over all its bytes but the last two equals the last two bytes.
C5_BadCrcRejected ==
    (pc = "harness_done" /\ response = sent /\ exc = "none" /\ ~result.isNone)
        => CrcValid(response)

-----------------------------------------------------------------------------
(* Claims on the polling loops (Spec) *)

\* results the running cycle has produced so far: rows printed by new_main.py,
\* entries of battery_data in main.py
Results == IF script = "new_main" THEN nrows ELSE Len(battery_data)

\* exceptions raised by the code after the read loop
ParseErrors == {"IndexError", "struct.error"}

\* C4 (as claimed): a cycle produces one result per configured battery,
\* whatever the batteries answered: a cycle that reaches its end has
\* Len(BATTERIES) results, and no cycle is cut short by the outcome of an
\* exchange.
C4_OneResultPerDevice ==
    /\ (pc = "cycle_end") => (Results = Len(BATTERIES))
    /\ (pc = "exit" /\ exc \in ParseErrors) => (Results = Len(BATTERIES))

\* C6 (as claimed): cell temperatures are produced only from a temperature
\* answer of exactly BATT_TEMP_REGISTER_COUNT registers.
C6_TempNeedsEightRegisters ==
    (pc = "send_pack" /\ cell_temps # <<>>)
        => (~result.isNone /\ Len(result.val) = BATT_TEMP_REGISTER_COUNT)

\* the pack read of battery number nrows has returned and its row is printed
PackRowPrinted ==
    /\ script = "new_main"
    /\ pc \in {"send_temp", "cycle_end"}
    /\ nrows > 0

\* C7: a row with pack fields and a fault list is printed only from a list
\* of exactly REGISTER_COUNT registers; when the pack read returned None or a
\* list of any other length, the row printed is the failed row, which holds
\* no pack field and no fault list.
C7_PackNeedsFiftyRegisters ==
    /\ (row.kind = "reading") => (row.nregs = REGISTER_COUNT)
    /\ PackRowPrinted =>
        IF ~result.isNone /\ Len(result.val) = REGISTER_COUNT
        THEN /\ row.kind = "reading"
             /\ row = ReadingRow(BATTERIES[nrows].name, result.val,
                                 row.cell_temps)
        ELSE row = FailedRow(BATTERIES[nrows].name)

\* the first battery answered with its 50 registers and its row shows them
C7_Witness ==
    /\ PackRowPrinted
    /\ nrows = 1
    /\ row.kind = "reading"
    /\ row.nregs = REGISTER_COUNT
    /\ row.voltage10 = 1234
    /\ row.current10 = 50
    /\ row.faults # <<>>

\* C8 (as claimed): the status of a failed row tells the cause: the status
\* "Timeout" is shown only when no byte came before the deadline, not for an
\* exception response and not for a register list of the wrong length.
C8_FailureStatusTellsCause ==
    (PackRowPrinted /\ row.kind = "failed" /\ row.status = "Timeout")
        => (cause = "no_response")

-----------------------------------------------------------------------------
(* Claims on calculate_crc and send_modbus_request (SpecCrc) *)

\* The CRC register as the set of the positions of its 1 bits, and the
\* bit-serial definition of the checksum on it.
PolyBits == {0, 13, 15}

SymDiff(A, B) == (A \ B) \cup (B \ A)

RECURSIVE TwoTo(_)
TwoTo(i) == IF i = 0 THEN 1 ELSE 2 * TwoTo(i - 1)

BitsOf(v) == {i \in 0..15 : (v \div TwoTo(i)) % 2 = 1}

RECURSIVE ValueOf(_)
ValueOf(S) ==
    IF S = {} THEN 0
    ELSE LET i == CHOOSE x \in S : TRUE IN TwoTo(i) + ValueOf(S \ {i})

\* one shift to the right, the feedback applied when a 1 falls out
RefShift(S) ==
    LET sh == {i - 1 : i \in S \ {0}}
    IN  IF 0 \in S THEN SymDiff(sh, PolyBits) ELSE sh

RECURSIVE RefShifts(_, _)
RefShifts(S, n) ==
    IF n = 0 THEN S
    ELSE LET t == RefShift(S)
         IN  IF Cardinality(t) >= 0 THEN RefShifts(t, n - 1) ELSE {}

RECURSIVE RefCrc(_, _)
\* the register after the first n bytes of data, from all ones
RefCrc(data, n) ==
    IF n = 0 THEN 0..15
    ELSE LET r == RefCrc(data, n - 1)
         IN  IF Cardinality(r) >= 0
             THEN RefShifts(SymDiff(r, BitsOf(data[n])), 8)
             ELSE {}

\* C9 (as claimed): the two bytes returned for 01 03 00 00 00 0A are the
\* low-byte-first serialization of 0xC5CD.
C9_VectorIsC5CD ==
    (pc = "harness_done" /\ arg = <<1, 3, 0, 0, 0, 10>>)
        => (out = <<50637 % 256, 50637 \div 256>>)

\* C9 (as the code has it): calculate_crc returns the checksum defined by
\* initial value 0xFFFF, feedback 0xA001 and bits taken least significant
\* first; the value lies in 0..65535 and is returned low byte first; for
\* 01 03 00 00 00 0A the value is 0xCDC5 and the bytes are C5 CD.
C9_CrcLowByteFirst ==
    (pc = "harness_done" /\ Len(out) > 0) =>
        LET v == ValueOf(RefCrc(arg, Len(arg)))
        IN  /\ v \in 0..65535
            /\ out = <<v % 256, v \div 256>>
            /\ (arg = <<1, 3, 0, 0, 0, 10>>) => (v = 52677 /\ out = <<197, 205>>)
            /\ (arg = <<>>) => (out = <<255, 255>>)

\* the checksum of 01 03 00 00 00 0A has been computed
C9_Witness ==
    /\ pc = "harness_done"
    /\ arg = <<1, 3, 0, 0, 0, 10>>
    /\ out = <<197, 205>>

\* C10: the request written by send_modbus_request has 8 bytes, the 6 packed
\* fields first, and calculate_crc over its first 6 bytes equals its last 2.
C10_RequestPassesCrc ==
    (pc = "harness_done" /\ Len(arg) = 4 /\ ntx = 1) =>
        /\ Len(tx) = 8
        /\ SubSeq(tx, 1, 6) =
             <<arg[1], arg[2], arg[3] \div 256, arg[3] % 256,
               arg[4] \div 256, arg[4] % 256>>
        /\ LET v == ValueOf(RefCrc(tx, 6))
           IN  tx[7] = v % 256 /\ tx[8] = v \div 256
        /\ CrcValid(tx)

\* the pack-data request to battery 1 has been written
C10_Witness ==
    /\ pc = "harness_done"
    /\ arg = <<129, 3, 56, 50>>
    /\ tx = <<129, 3, 0, 56, 0, 50, 90, 18>>

-----------------------------------------------------------------------------
(* Claims on the requests written by the polling loops (Spec) *)

\* read_modbus_response is running for battery number dev
InExchange == pc \in {"read_call", "read_loop", "read_parse"}

\* the 8 bytes of a read request: address, 0x03, start and count high byte
\* first, checksum of these 6 bytes low byte first
RequestFrame(addr, start, count) ==
    LET body == <<addr, 3, start \div 256, start % 256,
                  count \div 256, count % 256>>
        v == ValueOf(RefCrc(body, 6))
    IN  body \o <<v % 256, v \div 256>>

\* the requests of the two scripts to battery d, computed once
TempRequestOf == [d \in 1..Len(BATTERIES) |->
                    RequestFrame(BATTERIES[d].request_id, 48, 8)]
PackRequestOf == [d \in 1..Len(BATTERIES) |->
                    RequestFrame(BATTERIES[d].request_id, 56, 50)]
CellRequestOf == [d \in 1..Len(BATTERIES) |->
                    RequestFrame(BATTERIES[d].request_id, 0, 16)]

\* C11: every request written has exactly 8 bytes: the address, 0x03, start
\* and count high byte first, the CRC low byte first; in new_main.py the
\* temperature request asks for 8 registers from 0x30 and the pack request
\* for 50 registers from 0x38, of the battery being polled.
C11_RequestLayout ==
    /\ (tx # <<>>) =>
        /\ Len(tx) = 8
        /\ tx[2] = 3
        /\ \E d \in 1..Len(BATTERIES) :
            tx \in {TempRequestOf[d], PackRequestOf[d], CellRequestOf[d]}
    /\ (InExchange /\ retpc = "after_temp") => (tx = TempRequestOf[dev])
    /\ (InExchange /\ retpc = "after_pack") => (tx = PackRequestOf[dev])

\* the pack request to battery 2 is on the bus, after the temperature request
C11_Witness ==
    /\ pc = "read_loop"
    /\ retpc = "after_pack"
    /\ dev = 2
    /\ ntx = 4
    /\ tx = <<130, 3, 0, 56, 0, 50, 90, 33>>

-----------------------------------------------------------------------------
(* Claims on send_modbus_request and get_fault_list (SpecCrc) *)

\* C12 (as claimed): a request for 0 registers or for more than 125 is
\* rejected with an error and nothing is written.
C12_CountOutOfRangeRejected ==
    (pc = "harness_done" /\ Len(arg) = 4 /\ (arg[4] = 0 \/ arg[4] > 125))
        => (exc # "none" /\ tx = <<>> /\ ntx = 0)

-----------------------------------------------------------------------------
(* Claims on the decoding (SpecDecode) *)

\* the catalog of fault conditions: for word w, the labels of the bits
\* `first`, first + 1, ... of the 16-bit word (bit 0 the least significant)
CatalogRun(w, first, labels) ==
    [i \in 1..Len(labels) |->
        [word |-> w, bit |-> first + i - 1, label |-> labels[i]]]

\* word 1 high byte bits 0..7, word 1 low byte bits 0..7, word 2, 3, 4
Catalog ==
    CatalogRun(1, 8, F1_MSB_LABELS) \o CatalogRun(1, 0, F1_LSB_LABELS)
    \o CatalogRun(2, 8, F2_MSB_LABELS) \o CatalogRun(2, 0, F2_LSB_LABELS)
    \o CatalogRun(3, 8, F3_MSB_LABELS) \o CatalogRun(3, 0, F3_LSB_LABELS)
    \o CatalogRun(4, 8, F4_MSB_LABELS)

\* bit b of the 16-bit word v is set
BitSet(v, b) == (v \div TwoTo(b)) % 2 = 1

RECURSIVE ActiveFrom(_, _)
\* the labels of the catalog entries from the i-th on whose bit is set in
\* the words, in catalog order
ActiveFrom(words, i) ==
    IF i > Len(Catalog) THEN <<>>
    ELSE (IF BitSet(words[Catalog[i].word], Catalog[i].bit)
          THEN <<Catalog[i].label>> ELSE <<>>) \o ActiveFrom(words, i + 1)

\* C13: get_fault_list returns the labels of the set bits in the fixed order
\* word 1 high byte bits 0..7, word 1 low byte bits 0..7, then words 2, 3, 4
\* likewise (of word 4 the catalog holds the high byte's bits 0..5 only), no
\* label twice; all-zero words give the empty list and word 1 = 0x0100
\* alone gives <<"Cell V High L1">>.
C13_FaultListOrder ==
    (pc = "fault_done") =>
        /\ out = ActiveFrom(arg, 1)
        /\ Cardinality({out[i] : i \in 1..Len(out)}) = Len(out)
        /\ (arg = <<0, 0, 0, 0>>) => (out = <<>>)
        /\ (arg = <<256, 0, 0, 0>>) => (out = <<"Cell V High L1">>)

\* the labels of 0x8181 in words 1 and 2 have been returned, in order
C13_Witness ==
    /\ pc = "fault_done"
    /\ arg = <<33153, 33153, 0, 0>>
    /\ out = <<"Cell V High L1", "Pack V Low L2", "Chg Temp High L1",
               "Dischg Temp Low L2", "Chg Overcur L1", "SOC Low L2",
               "Diff V High L1", "Amb Temp High L2">>

\* C14: decoding in tenths: voltage*10 = register 0, current*10 = register 1
\* - 30000 (30050 gives 5.0 A, 29900 gives -10.0 A), SOC*10 = register 2,
\* remaining capacity*10 = register 19; each of the first four temperature
\* registers decodes to raw - 40 (45 gives 5); raw voltage 1234 gives 123.4.
C14_DecodeInTenths ==
    /\ (pc = "pack_done") =>
        /\ row.kind = "reading"
        /\ row.voltage10 = arg[1]
        /\ row.current10 = arg[2] - 30000
        /\ row.soc10 = arg[3]
        /\ row.rem_cap10 = arg[20]
        /\ (arg[1] = 1234) => (row.voltage10 = 1234)
        /\ (arg[2] = 30050) => (row.current10 = 50)
        /\ (arg[2] = 29900) => (row.current10 = -100)
    /\ (pc = "temp_done") =>
        /\ Len(cell_temps) = 4
        /\ \A i \in 1..4 : cell_temps[i] = arg[i] - 40
        /\ (arg[1] = 45) => (cell_temps[1] = 5)

\* 29900 has been decoded to -10.0 A, next to 123.4 V
C14_Witness ==
    /\ pc = "pack_done"
    /\ arg[1] = 1234
    /\ arg[2] = 29900
    /\ row.kind = "reading"
    /\ row.voltage10 = 1234
    /\ row.current10 = -100

\* the pack registers with the four fault words cleared
FaultsCleared(regs) ==
    [i \in 1..Len(regs) |-> IF i \in 47..50 THEN 0 ELSE regs[i]]

\* C15: for a 50-register pack set the row is a reading whatever the fault
\* words hold, and every decoded value of it is the one decoded from the same
\* registers with the fault words cleared; the fault words only fill the
\* fault list.
C15_FaultsAreTelemetry ==
    (pc = "pack_done") =>
        /\ row.kind = "reading"
        /\ [row EXCEPT !.faults = <<>>]
             = ReadingRow(BATTERIES[dev].name, FaultsCleared(arg), cell_temps)
        /\ row.faults = ActiveFrom(<<arg[47], arg[48], arg[49], arg[50]>>, 1)

\* a reading with all faults of word 1 raised, decoded as without them
C15_Witness ==
    /\ pc = "pack_done"
    /\ arg[47] = 65535
    /\ arg[50] = 1024
    /\ row.kind = "reading"
    /\ row.voltage10 = 1234
    /\ row.status = "Dischg"
    /\ Len(row.faults) = 17

-----------------------------------------------------------------------------
(* More claims on read_modbus_response (SpecRead) *)

\* C16 (as claimed): once 5 bytes of a response whose function code is
\* 0x80 or more are buffered the loop has stopped, whatever the error code,
\* and the call returns no registers.
C16_ErrorFrameCompleteAtFive ==
    /\ ~(pc = "read_loop" /\ Len(response) >= 5 /\ response[2] >= FC_ERROR_BIT)
    /\ (pc = "harness_done" /\ Len(response) >= 5
          /\ response[2] >= FC_ERROR_BIT) => (result = NoneVal)

\* C18 (as claimed): a complete function-3 frame with an odd byte-count
\* field is discarded: the call returns None and raises nothing.
C18_MalformedFrameDiscarded ==
    (/\ pc = "harness_done"
     /\ response = sent
     /\ Len(response) >= 5
     /\ response[2] = FC_READ
     /\ response[3] % 2 = 1
     /\ Len(response) = 5 + response[3])
        => (exc = "none" /\ result = NoneVal)

-----------------------------------------------------------------------------
(* Claims on the order and the number of the requests (Spec) *)

\* C17: in new_main.py the requests of a cycle are written in the order
\* temperature, pack data of battery 1, then of battery 2, and so on: while
\* the k-th request of the cycle is awaited, it is the temperature request
\* of battery (k + 1) / 2 for odd k and the pack request of battery k / 2
\* for even k; a request is written only after the call of
\* read_modbus_response for the one before has returned, and the call
\* returns only on a complete frame or at its deadline.
C17_RequestOrder ==
    /\ []((InExchange /\ script = "new_main") =>
            /\ retpc \in {"after_temp", "after_pack"}
            /\ (retpc = "after_temp") =>
                 (ntx = 2 * dev - 1 /\ tx = TempRequestOf[dev])
            /\ (retpc = "after_pack") =>
                 (ntx = 2 * dev /\ tx = PackRequestOf[dev]))
    /\ [][(ntx' # ntx) =>
            \/ ntx' = 0 /\ pc = "cycle_start"
            \/ /\ ntx' = ntx + 1
               /\ pc \in {"send_temp", "send_pack", "send_cells"}
               /\ pc' = "read_call"
               /\ (ntx > 0) => (cause \notin {"none", "raised"})]_vars
    /\ [][(pc = "read_loop" /\ pc' = "read_parse") =>
            (LoopBreaks(script, response') \/ ~TimeLeft(elapsed))]_vars

\* the sixth request of a cycle, the pack request to battery 3, is awaited
\* after battery 2 has timed out
C17_Witness ==
    /\ script = "new_main"
    /\ pc = "read_loop"
    /\ retpc = "after_pack"
    /\ dev = 3
    /\ ntx = 6
    /\ nrows = 2
    /\ row = FailedRow("Battery 2")
    /\ tx = <<131, 3, 0, 56, 0, 50, 91, 240>>

\* C19 (as claimed): a cycle of new_main.py that is not stopped by the
\* operator or by a fault of the port writes exactly two requests per
\* configured battery, whatever the batteries answered.
C19_TwoRequestsPerDevice ==
    (/\ script = "new_main"
     /\ \/ pc = "cycle_end"
        \/ pc = "exit" /\ exc \in ParseErrors)
        => (ntx = 2 * Len(BATTERIES))

-----------------------------------------------------------------------------
(* Claims on the end of the scripts (Spec) *)

\* C20 (as claimed): a script that has ended on KeyboardInterrupt or on an
\* I/O fault of the port has not left the port open.
C20_PortClosedAtExit ==
    (pc = "exit" /\ exc \in {"KeyboardInterrupt", "SerialException"})
        => (port # "open")

-----------------------------------------------------------------------------
(* More claims on get_fault_list (SpecDecode) *)

\* number of bits set in the 16-bit word v
SetBits(v) == Cardinality({b \in 0..15 : BitSet(v, b)})

\* C21 (as claimed): every set bit of every fault word gives a label of its
\* own in the list returned, so the list has as many labels as the four
\* words have set bits and is empty only if all four words are zero.
C21_EveryBitDecoded ==
    (pc = "fault_done") =>
        /\ Len(out) = SetBits(arg[1]) + SetBits(arg[2])
                        + SetBits(arg[3]) + SetBits(arg[4])
        /\ (out = <<>>) => (arg = <<0, 0, 0, 0>>)

-----------------------------------------------------------------------------
(* Claims on whose answer is decoded (Spec) *)

\* the value just returned by read_modbus_response is about to be recorded
\* for battery number dev: as its cell temperatures, as its pack reading, or
\* (main.py) as its entry of battery_data
Recorded ==
    \/ pc = "after_temp" /\ TempAccepted(result)
    \/ pc = "after_pack" /\ PackAccepted(result)
    \/ pc = "after_cells" /\ Truthy(result)

\* the bytes decoded are bytes of the answer to the request just written
FromOwnAnswer ==
    /\ Len(response) <= Len(sent)
    /\ response = SubSeq(sent, 1, Len(response))

\* C22 (as claimed): what is recorded for a battery was decoded from a frame
\* that carries the battery's response address and that is the answer to the
\* battery's own request, never from bytes of a late answer to an earlier
\* request.
C22_OnlyOwnAnswerDecoded ==
    Recorded =>
        /\ response[1] = BATTERIES[dev].response_id
        /\ FromOwnAnswer

=============================================================================
